---- MODULE Spec2Model ----
(***************************************************************************)
(* Capture -> redact -> encrypt-at-rest -> dual-mode live view.            *)
(*                                                                         *)
(* main.py runs on one asyncio event loop: the startup hook, the sampler   *)
(* task process_rtsp_stream and one websocket_endpoint coroutine per       *)
(* client.  A coroutine runs without interruption between two awaits, so   *)
(* one loop iteration of the sampler (read .. sleep) and one loop          *)
(* iteration of a session (wait .. dispatch) are each one action.  The     *)
(* files of the three directories ./record, ./record_mosaic and           *)
(* ./record_encrypt are known by their frame number n, the file            *)
(* frame_<n:04d>.jpg[.enc].                                                *)
(***************************************************************************)
EXTENDS Integers, Sequences, FiniteSets, TLC

VARIABLES
    record,          \* the directory ./record
    record_mosaic,   \* the directory ./record_mosaic
    record_encrypt,  \* the directory ./record_encrypt
    sampler,         \* "boot" | "yield" | "reading" | "stopped"
    frame_count,     \* process_rtsp_stream.frame_count
    since,           \* now - last_saved_time, in units of frame_interval
    conn,            \* session -> "none" | "open" | "closed"
    streaming,       \* session -> websocket_endpoint.streaming
    use_decryption,  \* session -> websocket_endpoint.use_decryption
    decryption_key,  \* session -> websocket_endpoint.decryption_key
    elapsed,         \* session -> time since its timer_task was created
    ev               \* the last handler that ran: its inputs and what it sent

vars == <<record, record_mosaic, record_encrypt, sampler, frame_count, since,
          conn, streaming, use_decryption, decryption_key, elapsed, ev>>

----------------------------------------------------------------------------
(* Bounds of the model *)

\* frames the sampler may commit in one run before the model stops sampling
MaxFrames == 2

\* frames the run of the file-name model has committed when it starts: one
\* more than the four digits of frame_%04d can number, so that
\* frame_10000.jpg is the newest file
RolloverStart == 10001

\* frame numbers of files that may lie on disk before the server starts
PreIds == {0, 1}

\* connections of the model
Sessions == {"s1"}

\* passphrases a client may send: the operator's and a wrong one
Passwords == {"rootroot", "guess"}

----------------------------------------------------------------------------
(* Program constants *)

ENCRYPTION_KEY == "rootroot"

\* frame_interval = INTERVAL = 0.5 s; time is counted in units of it
FrameInterval == 1

\* the width of {frame_count:04d}
PadWidth == 4

\* asyncio.sleep(INTERVAL) of a session's timer_task, in quarter seconds:
\* the resolution at which the timed model counts a session's time
TimerInterval == 2

----------------------------------------------------------------------------
(* Values *)

\* Python's None for decryption_key; every key has the same shape
None == [kdf |-> "None", password |-> ""]

\* a decoded picture: what the camera saw, whether the detector finds a face
\* in it, whether a face region was pixelated, how many JPEG encodings it
\* went through (JPEG is lossy: each encoding makes another picture)
NoImage == [scene |-> "none", faces |-> FALSE, blurred |-> FALSE, gen |-> 0]

\* the frames the media source may deliver
Frames ==
    { [scene |-> "a", faces |-> TRUE,  blurred |-> FALSE, gen |-> 0],
      [scene |-> "b", faces |-> FALSE, blurred |-> FALSE, gen |-> 0] }

\* generate_key: PBKDF2-HMAC-SHA256 of the password under the fixed salt and
\* iteration count, taken to be collision free
generate_key(password) ==
    [kdf |-> "PBKDF2HMAC(SHA256, 32, salt_, 100000)", password |-> password]

\* truth value of `decryption_key` in `use_decryption and decryption_key`
Truthy(key) == key # None

\* cv2.imwrite(path, img) to a .jpg path: the bytes of the JPEG encoding
ImWrite(img) ==
    [fmt |-> "jpg", img |-> [img EXCEPT !.gen = @ + 1], key |-> None]

\* cv2.imread(path): the decoded picture, or None (NoImage) when the bytes
\* are no image
ImRead(file) == IF file.fmt = "jpg" THEN file.img ELSE NoImage

\* cv2.imencode(".jpg", img) then base64.b64encode(buffer).decode()
ImEncodeB64(img) == [b64 |-> "jpg", img |-> [img EXCEPT !.gen = @ + 1]]

\* Fernet(key).encrypt(file_data): a token that only the same key opens
FernetEncrypt(key, file) ==
    [fmt |-> "fernet", img |-> file.img, key |-> key]

\* Fernet(key).decrypt(token) succeeds: the token is a Fernet token made
\* under this key (otherwise InvalidToken is raised)
FernetOpens(key, file) == file.fmt = "fernet" /\ file.key = key

\* the bytes Fernet(key).decrypt returns
FernetDecrypt(key, file) == [fmt |-> "jpg", img |-> file.img, key |-> None]

\* apply_face_mosaic: pixelate every detected face on a copy; a picture in
\* which the detector finds nothing comes back equal
apply_face_mosaic(image) ==
    IF image.faces
        THEN [image EXCEPT !.faces = FALSE, !.blurred = TRUE]
        ELSE image

----------------------------------------------------------------------------
(* Directories.  A directory maps every file content it holds to the set   *)
(* of frame numbers of the files with that content (no content maps to the *)
(* empty set), so a long run of equal files is one entry.                  *)

EmptyDir == [c \in {} |-> {}]

\* the frame numbers of the files of the directory: its listing
Names(dir) == UNION {dir[c] : c \in DOMAIN dir}

\* os.path.exists
Has(dir, n) == \E c \in DOMAIN dir : n \in dir[c]

\* the listing is empty
IsEmpty(dir) == DOMAIN dir = {}

\* the content of the file n of the directory
FileAt(dir, n) == CHOOSE c \in DOMAIN dir : n \in dir[c]

\* os.remove: the directory without the file n
Remove(dir, n) ==
    [c \in {x \in DOMAIN dir : dir[x] \ {n} # {}} |-> dir[c] \ {n}]

\* writing the file n: a new file, or new content for an existing one
Put(dir, n, file) ==
    LET rest == Remove(dir, n)
    IN  IF file \in DOMAIN rest
            THEN [rest EXCEPT ![file] = @ \cup {n}]
            ELSE (file :> {n}) @@ rest

\* the directory in which every n of DOMAIN f is a file of content f[n]
MakeDir(f) == [c \in {f[n] : n \in DOMAIN f} |-> {n \in DOMAIN f : f[n] = c}]

----------------------------------------------------------------------------
(* File names and the sorted directory listing *)

\* the decimal digits of n, as character codes "0" = 48 .. "9" = 57
RECURSIVE Digits(_)
Digits(n) ==
    IF n < 10 THEN <<48 + n>> ELSE Append(Digits(n \div 10), 48 + (n % 10))

\* left padding with "0" up to the width w
RECURSIVE ZeroPad(_, _)
ZeroPad(s, w) == IF Len(s) >= w THEN s ELSE ZeroPad(<<48>> \o s, w)

\* f"frame_{frame_count:04d}.jpg" without the prefix "frame_" and the suffix
\* "jpg" that all names share: the padded digits and the "." (code 46)
FrameName(n) == Append(ZeroPad(Digits(n), PadWidth), 46)

\* Python's str <: the first differing character decides, a proper prefix is
\* smaller
RECURSIVE StrLessFrom(_, _, _)
StrLessFrom(a, b, i) ==
    IF i > Len(a) THEN i <= Len(b)
    ELSE IF i > Len(b) THEN FALSE
    ELSE IF a[i] # b[i] THEN a[i] < b[i]
    ELSE StrLessFrom(a, b, i + 1)

StrLess(a, b) == StrLessFrom(a, b, 1)

\* the later of two listed files in sorted order (-1: no file)
LaterName(m, n) ==
    IF m = -1 THEN n
    ELSE IF n = -1 THEN m
    ELSE IF StrLess(FrameName(m), FrameName(n)) THEN n ELSE m

\* sorted(...)[-1] over the files numbered lo..hi of the listing S
RECURSIVE SortedLastIn(_, _, _)
SortedLastIn(S, lo, hi) ==
    IF lo = hi THEN (IF lo \in S THEN lo ELSE -1)
    ELSE LET mid == (lo + hi) \div 2
         IN  LaterName(SortedLastIn(S, lo, mid), SortedLastIn(S, mid + 1, hi))

\* a number no element of S exceeds, found by doubling from b
RECURSIVE UpperBound(_, _)
UpperBound(S, b) ==
    IF \E n \in S : n > b THEN UpperBound(S, 2 * b + 1) ELSE b

\* sorted(glob("./record_mosaic/frame_*.jpg"))[-1] and
\* sorted(glob("./record_encrypt/frame_*.jpg.enc"))[-1]: the file whose name
\* sorts last among the files of the directory (the directory is not empty)
SortedLast(dir) ==
    LET S == Names(dir) IN SortedLastIn(S, 0, UpperBound(S, 0))

----------------------------------------------------------------------------
(* Startup: del_files, process_files, then the sampler task is created *)

\* the three directories as one value
Disk(raw, mosaic, encrypted) ==
    [record |-> raw, record_mosaic |-> mosaic, record_encrypt |-> encrypted]

\* del_files: every file of the three directories is removed
del_files(disk) == Disk(EmptyDir, EmptyDir, EmptyDir)

\* process_files handles the file n of ./record: it is not skipped as
\* already processed and cv2.imread can read it
Unprocessed(disk, n) ==
    /\ ~(Has(disk.record_mosaic, n) /\ Has(disk.record_encrypt, n))
    /\ ImRead(FileAt(disk.record, n)) # NoImage

\* process_files: every unprocessed file of ./record gets a mosaic file and
\* an encrypted file under the operator key; each file touches only the
\* artifacts of its own name, and no raw file is removed
process_files(disk) ==
    LET key  == generate_key(ENCRYPTION_KEY)
        todo == {n \in Names(disk.record) : Unprocessed(disk, n)}
    IN  Disk(disk.record,
             MakeDir([n \in Names(disk.record_mosaic) \cup todo |->
                     IF n \in todo
                         THEN ImWrite(apply_face_mosaic(
                                  ImRead(FileAt(disk.record, n))))
                         ELSE FileAt(disk.record_mosaic, n)]),
             MakeDir([n \in Names(disk.record_encrypt) \cup todo |->
                     IF n \in todo
                         THEN FernetEncrypt(key, FileAt(disk.record, n))
                         ELSE FileAt(disk.record_encrypt, n)]))

\* startup_event
startup_event ==
    /\ sampler = "boot"
    /\ LET before == Disk(record, record_mosaic, record_encrypt)
           after  == process_files(del_files(before))
       IN  /\ record' = after.record
           /\ record_mosaic' = after.record_mosaic
           /\ record_encrypt' = after.record_encrypt
           /\ ev' = [op |-> "startup", before |-> before]
    /\ sampler' = "yield"
    /\ frame_count' = 0
    /\ since' = 0
    /\ UNCHANGED <<conn, streaming, use_decryption, decryption_key>>

----------------------------------------------------------------------------
(* The sampler task process_rtsp_stream *)

\* BothExist with `or` in place of `and`
BothExist_Either(mosaic, encrypted, n) ==
    Has(mosaic, n) \/ Has(encrypted, n)

\* the guard of os.remove(file_path): both derived files exist
BothExist(mosaic, encrypted, n) ==
    Has(mosaic, n) /\ Has(encrypted, n)

\* One sampled frame (lines 70-96).  The outcomes of the calls that can fail:
\*   rawW, mosW: cv2.imwrite wrote the file ("ok") or returned False
\*   mosF      : apply_face_mosaic returned ("ok") or raised
\*   encF      : encrypt_file returned ("ok") or raised before writing; it
\*               always raises when the raw file does not exist
\* The result: the three directories, the counter, and what happened.
SampleFrame(disk, count, frame, rawW, mosF, mosW, encF) ==
    LET n    == count
        raw1 == IF rawW = "ok" THEN Put(disk.record, n, ImWrite(frame))
                ELSE disk.record
        mos1 == IF mosF = "ok" /\ mosW = "ok"
                    THEN Put(disk.record_mosaic, n,
                             ImWrite(apply_face_mosaic(frame)))
                    ELSE disk.record_mosaic
        encOk == mosF = "ok" /\ encF = "ok" /\ Has(raw1, n)
        enc1 == IF encOk
                    THEN Put(disk.record_encrypt, n,
                             FernetEncrypt(generate_key(ENCRYPTION_KEY),
                                           FileAt(raw1, n)))
                    ELSE disk.record_encrypt
        del  == encOk /\ BothExist(mos1, enc1, n)
        raw2 == IF del THEN Remove(raw1, n) ELSE raw1
    IN  [disk    |-> Disk(raw2, mos1, enc1),
         count   |-> IF encOk THEN count + 1 ELSE count,
         staged  |-> Has(raw1, n),
         ok      |-> encOk,
         deleted |-> del]

\* the sampler task is resumed after its sleep and enters the blocking
\* process.stdout.read: the event loop is held until the read returns
SamplerWake ==
    /\ sampler = "yield"
    /\ sampler' = "reading"
    /\ UNCHANGED <<record, record_mosaic, record_encrypt, frame_count, since,
                   conn, streaming, use_decryption, decryption_key, ev>>

\* the read returns nothing (end of stream) or too few bytes (reshape
\* raises): the loop ends
SamplerExhausted ==
    /\ sampler = "reading"
    /\ \E why \in {"eof", "short"} :
          ev' = [op |-> "exhausted", why |-> why]
    /\ sampler' = "stopped"
    /\ UNCHANGED <<record, record_mosaic, record_encrypt, frame_count, since,
                   conn, streaming, use_decryption, decryption_key>>

\* SamplerDiscard that stores the dropped frame as a mosaic file
SamplerDiscard_Stores ==
    /\ sampler = "reading"
    /\ \E dt \in 0..FrameInterval :
          /\ since + dt < FrameInterval
          /\ since' = since + dt
    /\ \E frame \in Frames :
          record_mosaic' = Put(record_mosaic, frame_count,
                               ImWrite(apply_face_mosaic(frame)))
    /\ ev' = [op |-> "discard"]
    /\ sampler' = "yield"
    /\ UNCHANGED <<record, record_encrypt, frame_count,
                   conn, streaming, use_decryption, decryption_key>>

\* the read returns a frame after dt units of time, and less than the
\* interval has passed since the last sampled frame: the frame is dropped
SamplerDiscard ==
    /\ sampler = "reading"
    /\ \E dt \in 0..FrameInterval :
          /\ since + dt < FrameInterval
          /\ since' = since + dt
    /\ ev' = [op |-> "discard"]
    /\ sampler' = "yield"
    /\ UNCHANGED <<record, record_mosaic, record_encrypt, frame_count,
                   conn, streaming, use_decryption, decryption_key>>

\* SamplerTick whose loop ends when the processing of the frame raised
SamplerTick_StopsOnFailure(cap, faults) ==
    /\ sampler = "reading"
    /\ frame_count < cap
    /\ \E dt \in 0..FrameInterval : since + dt >= FrameInterval
    /\ \E frame \in Frames, rawW \in {"ok"} \cup ({"false"} \cap faults),
          mosF \in {"ok"} \cup ({"raise"} \cap faults) :
       \E mosW \in IF mosF = "ok" THEN {"ok"} \cup ({"false"} \cap faults)
                                  ELSE {"unused"},
          encF \in IF mosF = "ok" THEN {"ok"} \cup ({"raise"} \cap faults)
                                  ELSE {"unused"} :
          LET r == SampleFrame(Disk(record, record_mosaic, record_encrypt),
                               frame_count, frame, rawW, mosF, mosW, encF)
          IN  /\ record' = r.disk.record
              /\ record_mosaic' = r.disk.record_mosaic
              /\ record_encrypt' = r.disk.record_encrypt
              /\ frame_count' = r.count
              /\ ev' = [op |-> "tick", n |-> frame_count, frame |-> frame,
                        staged |-> r.staged, ok |-> r.ok,
                        deleted |-> r.deleted]
              /\ sampler' = IF r.ok THEN "yield" ELSE "stopped"
    /\ since' = 0
    /\ UNCHANGED <<conn, streaming, use_decryption, decryption_key>>

\* the read returns a frame once the interval has passed: the frame is
\* sampled.  cap bounds the counter of the model, faults are the failures
\* the calls of this run may end in.
SamplerTick(cap, faults) ==
    /\ sampler = "reading"
    /\ frame_count < cap
    /\ \E dt \in 0..FrameInterval : since + dt >= FrameInterval
    /\ \E frame \in Frames, rawW \in {"ok"} \cup ({"false"} \cap faults),
          mosF \in {"ok"} \cup ({"raise"} \cap faults) :
       \E mosW \in IF mosF = "ok" THEN {"ok"} \cup ({"false"} \cap faults)
                                  ELSE {"unused"},
          encF \in IF mosF = "ok" THEN {"ok"} \cup ({"raise"} \cap faults)
                                  ELSE {"unused"} :
          LET r == SampleFrame(Disk(record, record_mosaic, record_encrypt),
                               frame_count, frame, rawW, mosF, mosW, encF)
          IN  /\ record' = r.disk.record
              /\ record_mosaic' = r.disk.record_mosaic
              /\ record_encrypt' = r.disk.record_encrypt
              /\ frame_count' = r.count
              /\ ev' = [op |-> "tick", n |-> frame_count, frame |-> frame,
                        staged |-> r.staged, ok |-> r.ok,
                        deleted |-> r.deleted]
    /\ since' = 0
    /\ sampler' = "yield"
    /\ UNCHANGED <<conn, streaming, use_decryption, decryption_key>>

----------------------------------------------------------------------------
(* Messages *)

NoData == [b64 |-> "none", img |-> NoImage]

\* a server message without a frame; filename -1 stands for no file name
Reply(type) ==
    [type |-> type, data |-> NoData, filename |-> -1, decrypted |-> FALSE]

\* {"type": "stream_frame", "data": ..., "filename": ..., "decrypted": ...};
\* the file name is given by the frame number n
StreamFrame(img, n, decrypted) ==
    [type |-> "stream_frame", data |-> ImEncodeB64(img), filename |-> n,
     decrypted |-> decrypted]

\* what a client may send: the three control messages, a message of another
\* type, and text that is no JSON object with a "type" ("malformed").  The
\* key of set_decryption_key is a passphrase or empty/absent ("").
ControlMsgs ==
    { [type |-> t, key |-> ""] :
        t \in {"stream_request", "stop_stream", "other", "malformed"} }

KeyMsgs ==
    { [type |-> "set_decryption_key", key |-> k] : k \in Passwords \cup {""} }

ClientMsgs == ControlMsgs \cup KeyMsgs

\* the two messages that start and stop the streaming mode
StreamMsgs == {m \in ControlMsgs : m.type \in {"stream_request", "stop_stream"}}

NoMsg == [type |-> "none", key |-> ""]

\* the messages that may arrive in the very instant the interval timer
\* expires
RacingMsgs == { [type |-> "stop_stream", key |-> ""] }

\* the local variables of one websocket_endpoint coroutine
Local(s) ==
    [streaming |-> streaming[s], use_decryption |-> use_decryption[s],
     decryption_key |-> decryption_key[s]]

Fresh == [streaming |-> FALSE, use_decryption |-> FALSE, decryption_key |-> None]

----------------------------------------------------------------------------
(* The live-view session websocket_endpoint *)

\* the branch condition of the push without its use_decryption conjunct
Decrypting_KeyOnly(loc) == Truthy(loc.decryption_key)

\* `use_decryption and decryption_key`: the push serves decrypted originals
Decrypting(loc) == loc.use_decryption /\ Truthy(loc.decryption_key)

\* SendLatest whose except branch reports the error and stays in the
\* decrypting mode
SendLatest_NoFallback(disk, loc, io) ==
    IF Decrypting(loc)
    THEN IF IsEmpty(disk.record_encrypt)
         THEN [out |-> <<>>, use_decryption |-> loc.use_decryption,
               tried |-> FALSE]
         ELSE LET n     == SortedLast(disk.record_encrypt)
                  token == FileAt(disk.record_encrypt, n)
              IN  IF io = "ok" /\ FernetOpens(loc.decryption_key, token)
                  THEN LET img == ImRead(FernetDecrypt(loc.decryption_key, token))
                       IN  [out |-> IF img # NoImage
                                        THEN <<StreamFrame(img, n, TRUE)>>
                                        ELSE <<>>,
                            use_decryption |-> loc.use_decryption,
                            tried |-> TRUE]
                  ELSE [out |-> <<Reply("decryption_error")>>,
                        use_decryption |-> loc.use_decryption, tried |-> TRUE]
    ELSE IF IsEmpty(disk.record_mosaic)
         THEN [out |-> <<>>, use_decryption |-> loc.use_decryption,
               tried |-> FALSE]
         ELSE LET n   == SortedLast(disk.record_mosaic)
                  img == ImRead(FileAt(disk.record_mosaic, n))
              IN  [out |-> IF img # NoImage
                               THEN <<StreamFrame(img, n, FALSE)>>
                               ELSE <<>>,
                   use_decryption |-> loc.use_decryption, tried |-> FALSE]

\* The push of the latest frame (lines 134-188, and again 204-255).  io is
\* the outcome of the file operations inside the try block of the decrypting
\* branch ("ok", or "fail": one of them raised).  The result: the messages
\* sent, the new use_decryption, whether a decryption was attempted.
SendLatest(disk, loc, io) ==
    IF Decrypting(loc)
    THEN IF IsEmpty(disk.record_encrypt)
         THEN [out |-> <<>>, use_decryption |-> loc.use_decryption,
               tried |-> FALSE]
         ELSE LET n     == SortedLast(disk.record_encrypt)
                  token == FileAt(disk.record_encrypt, n)
              IN  IF io = "ok" /\ FernetOpens(loc.decryption_key, token)
                  THEN LET img == ImRead(FernetDecrypt(loc.decryption_key, token))
                       IN  [out |-> IF img # NoImage
                                        THEN <<StreamFrame(img, n, TRUE)>>
                                        ELSE <<>>,
                            use_decryption |-> loc.use_decryption,
                            tried |-> TRUE]
                  ELSE [out |-> <<Reply("decryption_error")>>,
                        use_decryption |-> FALSE, tried |-> TRUE]
    ELSE IF IsEmpty(disk.record_mosaic)
         THEN [out |-> <<>>, use_decryption |-> loc.use_decryption,
               tried |-> FALSE]
         ELSE LET n   == SortedLast(disk.record_mosaic)
                  img == ImRead(FileAt(disk.record_mosaic, n))
              IN  [out |-> IF img # NoImage
                               THEN <<StreamFrame(img, n, FALSE)>>
                               ELSE <<>>,
                   use_decryption |-> loc.use_decryption, tried |-> FALSE]

\* data["type"] == "stream_request" (lines 199-255)
OnStreamRequest(disk, loc, io) ==
    LET p == SendLatest(disk, [loc EXCEPT !.streaming = TRUE], io)
    IN  [loc   |-> [loc EXCEPT !.streaming = TRUE,
                               !.use_decryption = p.use_decryption],
         out   |-> p.out,
         tried |-> p.tried]

\* OnStopStream that confirms without leaving the streaming mode
OnStopStream_KeepsStreaming(loc) ==
    [loc   |-> loc,
     out   |-> <<Reply("stream_complete")>>,
     tried |-> FALSE]

\* data["type"] == "stop_stream" (lines 257-262)
OnStopStream(loc) ==
    [loc   |-> [loc EXCEPT !.streaming = FALSE],
     out   |-> <<Reply("stream_complete")>>,
     tried |-> FALSE]

\* OnSetDecryptionKey whose empty-key branch leaves the mode as it is
OnSetDecryptionKey_KeepsMode(disk, loc, provided_key, test, io) ==
    IF provided_key # ""
    THEN LET key == generate_key(provided_key)
         IN  IF test = -1
             THEN [loc |-> loc, out |-> <<>>, tried |-> FALSE]
             ELSE IF io = "ok" /\ FernetOpens(key, FileAt(disk.record_encrypt, test))
                  THEN [loc   |-> [loc EXCEPT !.decryption_key = key,
                                              !.use_decryption = TRUE],
                        out   |-> <<Reply("decryption_key_valid")>>,
                        tried |-> TRUE]
                  ELSE [loc   |-> loc,
                        out   |-> <<Reply("decryption_key_invalid")>>,
                        tried |-> TRUE]
    ELSE [loc   |-> [loc EXCEPT !.decryption_key = None],
          out   |-> <<Reply("decryption_disabled")>>,
          tried |-> FALSE]

\* OnSetDecryptionKey that stores a probed key without switching the mode
OnSetDecryptionKey_NoSwitch(disk, loc, provided_key, test, io) ==
    IF provided_key # ""
    THEN LET key == generate_key(provided_key)
         IN  IF test = -1
             THEN [loc |-> loc, out |-> <<>>, tried |-> FALSE]
             ELSE IF io = "ok" /\ FernetOpens(key, FileAt(disk.record_encrypt, test))
                  THEN [loc   |-> [loc EXCEPT !.decryption_key = key],
                        out   |-> <<Reply("decryption_key_valid")>>,
                        tried |-> TRUE]
                  ELSE [loc   |-> loc,
                        out   |-> <<Reply("decryption_key_invalid")>>,
                        tried |-> TRUE]
    ELSE [loc   |-> [loc EXCEPT !.use_decryption = FALSE,
                                !.decryption_key = None],
          out   |-> <<Reply("decryption_disabled")>>,
          tried |-> FALSE]

\* data["type"] == "set_decryption_key" (lines 264-304).  test is the file
\* glob("./record_encrypt/*.enc")[0] names (-1: the listing is empty), io
\* the outcome of the file operations of the probe.
OnSetDecryptionKey(disk, loc, provided_key, test, io) ==
    IF provided_key # ""
    THEN LET key == generate_key(provided_key)
         IN  IF test = -1
             THEN [loc |-> loc, out |-> <<>>, tried |-> FALSE]
             ELSE IF io = "ok" /\ FernetOpens(key, FileAt(disk.record_encrypt, test))
                  THEN [loc   |-> [loc EXCEPT !.decryption_key = key,
                                              !.use_decryption = TRUE],
                        out   |-> <<Reply("decryption_key_valid")>>,
                        tried |-> TRUE]
                  ELSE [loc   |-> loc,
                        out   |-> <<Reply("decryption_key_invalid")>>,
                        tried |-> TRUE]
    ELSE [loc   |-> [loc EXCEPT !.use_decryption = FALSE,
                                !.decryption_key = None],
          out   |-> <<Reply("decryption_disabled")>>,
          tried |-> FALSE]

\* the dispatch on data["type"] (lines 194-304): a message of another type
\* is ignored
Dispatch(disk, loc, msg, test, io) ==
    CASE msg.type = "stream_request" -> OnStreamRequest(disk, loc, io)
      [] msg.type = "stop_stream" -> OnStopStream(loc)
      [] msg.type = "set_decryption_key" ->
            OnSetDecryptionKey(disk, loc, msg.key, test, io)
      [] OTHER -> [loc |-> loc, out |-> <<>>, tried |-> FALSE]

\* the files glob("./record_encrypt/*.enc")[0] may name: any file of the
\* directory, the listing being in no particular order
TestFiles(dir) == IF IsEmpty(dir) THEN {-1} ELSE Names(dir)

\* the message makes the handler probe a key
Probes(msg) == msg.type = "set_decryption_key" /\ msg.key # ""

\* the outcomes of the file operations of a push: there are some only when
\* a key is stored and there is a file to decrypt
IoOutcomes(dir, loc) ==
    IF Truthy(loc.decryption_key) /\ ~IsEmpty(dir)
        THEN {"ok", "fail"}
        ELSE {"unused"}

\* the failures a call of the sampler may end in: cv2.imwrite returns
\* False, apply_face_mosaic or encrypt_file raises
AllFaults == {"false", "raise"}

\* the session coroutines run only while the sampler is not inside its
\* blocking read
LoopFree == sampler \in {"yield", "stopped"}

\* SetLocal on variables that all sessions share
SetLocal_Shared(s, loc) ==
    /\ streaming' = [streaming EXCEPT ![s] = loc.streaming]
    /\ use_decryption' = [t \in DOMAIN use_decryption |-> loc.use_decryption]
    /\ decryption_key' = [t \in DOMAIN decryption_key |-> loc.decryption_key]

\* the assignments of one coroutine to its local variables
SetLocal(s, loc) ==
    /\ streaming' = [streaming EXCEPT ![s] = loc.streaming]
    /\ use_decryption' = [use_decryption EXCEPT ![s] = loc.use_decryption]
    /\ decryption_key' = [decryption_key EXCEPT ![s] = loc.decryption_key]

\* websocket.accept() and the three initial assignments (lines 109-113)
Connect(s) ==
    /\ LoopFree
    /\ conn[s] = "none"
    /\ conn' = [conn EXCEPT ![s] = "open"]
    /\ SetLocal(s, Fresh)
    /\ ev' = [op |-> "connect", who |-> s]
    /\ UNCHANGED <<record, record_mosaic, record_encrypt, sampler,
                   frame_count, since>>

\* receive_text raises (the client went away): except ... break
Disconnect(s) ==
    /\ LoopFree
    /\ conn[s] = "open"
    /\ conn' = [conn EXCEPT ![s] = "closed"]
    /\ SetLocal(s, Fresh)
    /\ ev' = [op |-> "disconnect", who |-> s]
    /\ UNCHANGED <<record, record_mosaic, record_encrypt, sampler,
                   frame_count, since>>

\* One loop iteration in which timer_task is in done (lines 121-189).  lost
\* is the message of receive_task when that task completed as well by the
\* time asyncio.wait returned (NoMsg: it was pending and is cancelled); the
\* branch ends in `continue`, so receive_task.result() is never read.
TimerTick(s, racing) ==
    /\ LoopFree
    /\ conn[s] = "open"
    /\ streaming[s]
    /\ \E io \in IoOutcomes(record_encrypt, Local(s)),
          lost \in {NoMsg} \cup racing :
          LET p == SendLatest(Disk(record, record_mosaic, record_encrypt),
                              Local(s), io)
          IN  /\ SetLocal(s, [Local(s) EXCEPT !.use_decryption = p.use_decryption])
              /\ ev' = [op |-> "timer", who |-> s, msg |-> NoMsg,
                        io |-> IF p.tried THEN io ELSE "unused",
                        pre |-> Local(s), out |-> p.out,
                        lost |-> lost]
    /\ UNCHANGED <<record, record_mosaic, record_encrypt, sampler,
                   frame_count, since, conn>>

\* One loop iteration in which the received message is processed (lines
\* 190-304): receive_task completed, and when streaming the timer had not.
\* Text that is no JSON object with a "type" raises: except ... break.
Receive(s, msgs) ==
    /\ LoopFree
    /\ conn[s] = "open"
    /\ \E msg \in msgs :
       \E test \in IF Probes(msg) THEN TestFiles(record_encrypt) ELSE {-1} :
       \E io \in IF Probes(msg) THEN IF test = -1 THEN {"unused"}
                                    ELSE {"ok", "fail"}
                ELSE IF msg.type = "stream_request"
                        THEN IoOutcomes(record_encrypt, Local(s))
                        ELSE {"unused"} :
          LET r == Dispatch(Disk(record, record_mosaic, record_encrypt),
                            Local(s), msg, test, io)
              bad == msg.type = "malformed"
          IN  /\ SetLocal(s, IF bad THEN Fresh ELSE r.loc)
              /\ conn' = [conn EXCEPT ![s] = IF bad THEN "closed" ELSE "open"]
              /\ ev' = [op |-> "recv", who |-> s, msg |-> msg,
                        io |-> IF r.tried THEN io ELSE "unused",
                        pre |-> Local(s), out |-> r.out, lost |-> NoMsg]
    /\ UNCHANGED <<record, record_mosaic, record_encrypt, sampler,
                   frame_count, since>>

----------------------------------------------------------------------------
(* The specification *)

\* files that may lie in the directories before the server starts
PreRaw == {ImWrite(f) : f \in Frames}

PreMosaic == {ImWrite(apply_face_mosaic(ImRead(r))) : r \in PreRaw}

PreEncrypted == {FernetEncrypt(generate_key(ENCRYPTION_KEY), r) : r \in PreRaw}

Dirs(files) ==
    {MakeDir(f) : f \in UNION {[D -> files] : D \in SUBSET PreIds}}

Init ==
    /\ record \in Dirs(PreRaw)
    /\ record_mosaic \in Dirs(PreMosaic)
    /\ record_encrypt \in Dirs(PreEncrypted)
    /\ sampler = "boot"
    /\ frame_count = 0
    /\ since = 0
    /\ conn = [s \in Sessions |-> "none"]
    /\ streaming = [s \in Sessions |-> FALSE]
    /\ use_decryption = [s \in Sessions |-> FALSE]
    /\ decryption_key = [s \in Sessions |-> None]
    /\ elapsed = [s \in Sessions |-> 0]
    /\ ev = [op |-> "init"]

\* Spec does not follow the timers of the sessions: the timer of a streaming
\* session may expire at any time, and elapsed stays as it is
Next ==
    \/ startup_event /\ UNCHANGED elapsed
    \/ SamplerWake /\ UNCHANGED elapsed
    \/ SamplerExhausted /\ UNCHANGED elapsed
    \/ SamplerDiscard /\ UNCHANGED elapsed
    \/ SamplerTick(MaxFrames, AllFaults) /\ UNCHANGED elapsed
    \/ \E s \in DOMAIN conn : Connect(s) /\ UNCHANGED elapsed
    \/ \E s \in DOMAIN conn : Disconnect(s) /\ UNCHANGED elapsed
    \/ \E s \in DOMAIN conn : TimerTick(s, RacingMsgs) /\ UNCHANGED elapsed
    \/ \E s \in DOMAIN conn : Receive(s, ClientMsgs) /\ UNCHANGED elapsed

Spec == Init /\ [][Next]_vars

----------------------------------------------------------------------------
(* The file-name model: a run that has already committed RolloverStart     *)
(* frames and samples one more, every call of the sampler succeeding;      *)
(* clients only start and stop the stream                                  *)

\* the directories after n frames were sampled without a failure
CommittedDisk(n, frame) ==
    Disk(EmptyDir,
         ImWrite(apply_face_mosaic(frame)) :> 0..(n - 1),
         FernetEncrypt(generate_key(ENCRYPTION_KEY), ImWrite(frame))
             :> 0..(n - 1))

InitNames ==
    /\ \E frame \in {f \in Frames : f.faces} :
          LET disk == CommittedDisk(RolloverStart, frame)
          IN  /\ record = disk.record
              /\ record_mosaic = disk.record_mosaic
              /\ record_encrypt = disk.record_encrypt
              /\ ev = [op |-> "tick", n |-> RolloverStart - 1, frame |-> frame,
                       staged |-> TRUE, ok |-> TRUE, deleted |-> TRUE]
    /\ sampler = "yield"
    /\ frame_count = RolloverStart
    /\ since = 0
    /\ conn = [s \in Sessions |-> "none"]
    /\ streaming = [s \in Sessions |-> FALSE]
    /\ use_decryption = [s \in Sessions |-> FALSE]
    /\ decryption_key = [s \in Sessions |-> None]
    /\ elapsed = [s \in Sessions |-> 0]

NextNames ==
    \/ SamplerWake /\ UNCHANGED elapsed
    \/ SamplerExhausted /\ UNCHANGED elapsed
    \/ SamplerDiscard /\ UNCHANGED elapsed
    \/ SamplerTick(RolloverStart + 1, {}) /\ UNCHANGED elapsed
    \/ \E s \in DOMAIN conn : Connect(s) /\ UNCHANGED elapsed
    \/ \E s \in DOMAIN conn : Disconnect(s) /\ UNCHANGED elapsed
    \/ \E s \in DOMAIN conn : TimerTick(s, {}) /\ UNCHANGED elapsed
    \/ \E s \in DOMAIN conn : Receive(s, StreamMsgs) /\ UNCHANGED elapsed

SpecNames == InitNames /\ [][NextNames]_vars

----------------------------------------------------------------------------
(* The run without failures: the server starts on any content of the       *)
(* directories and every call of the sampler succeeds                      *)

NextClean ==
    \/ startup_event /\ UNCHANGED elapsed
    \/ SamplerWake /\ UNCHANGED elapsed
    \/ SamplerExhausted /\ UNCHANGED elapsed
    \/ SamplerDiscard /\ UNCHANGED elapsed
    \/ SamplerTick(MaxFrames, {}) /\ UNCHANGED elapsed

SpecClean == Init /\ [][NextClean]_vars

----------------------------------------------------------------------------
(* The timed model of the sessions.  The media source is exhausted after   *)
(* one committed frame and the sampler has stopped; each session's        *)
(* timer_task is followed: it is created anew by every loop iteration      *)
(* (line 122) and completes TimerInterval after its creation.              *)

\* a new timer_task for the session s
Rearm(s) == elapsed' = [elapsed EXCEPT ![s] = 0]

\* the session s waits on a timer_task that has not completed
TimerPending(s) ==
    conn[s] = "open" /\ streaming[s] /\ elapsed[s] < TimerInterval

\* the session s waits on a timer_task that has completed
TimerExpired(s) ==
    conn[s] = "open" /\ streaming[s] /\ elapsed[s] = TimerInterval

\* a quarter second passes: every pending timer_task is that much older
Pass ==
    /\ \E s \in DOMAIN conn : TimerPending(s)
    /\ elapsed' = [s \in DOMAIN conn |->
                      IF TimerPending(s) THEN elapsed[s] + 1 ELSE elapsed[s]]
    /\ UNCHANGED <<record, record_mosaic, record_encrypt, sampler,
                   frame_count, since, conn, streaming, use_decryption,
                   decryption_key, ev>>

\* asyncio.wait returns with timer_task in done
TimedTimerTick(s) ==
    /\ TimerExpired(s)
    /\ TimerTick(s, RacingMsgs)
    /\ Rearm(s)

\* asyncio.wait returns with receive_task alone in done, or the session is
\* not streaming and `await receive_task` returns
TimedReceive(s) ==
    /\ ~TimerExpired(s)
    /\ Receive(s, ClientMsgs)
    /\ Rearm(s)

InitTimed ==
    /\ \E frame \in {f \in Frames : f.faces} :
          LET disk == CommittedDisk(1, frame)
          IN  /\ record = disk.record
              /\ record_mosaic = disk.record_mosaic
              /\ record_encrypt = disk.record_encrypt
    /\ ev = [op |-> "exhausted", why |-> "eof"]
    /\ sampler = "stopped"
    /\ frame_count = 1
    /\ since = 0
    /\ conn = [s \in Sessions |-> "none"]
    /\ streaming = [s \in Sessions |-> FALSE]
    /\ use_decryption = [s \in Sessions |-> FALSE]
    /\ decryption_key = [s \in Sessions |-> None]
    /\ elapsed = [s \in Sessions |-> 0]

NextTimed ==
    \/ Pass
    \/ \E s \in DOMAIN conn : Connect(s) /\ Rearm(s)
    \/ \E s \in DOMAIN conn : Disconnect(s) /\ Rearm(s)
    \/ \E s \in DOMAIN conn : TimedTimerTick(s)
    \/ \E s \in DOMAIN conn : TimedReceive(s)

\* time passes, and the event loop resumes a session whose wait has
\* returned; when a client sends is up to the client
SpecTimed ==
    /\ InitTimed
    /\ [][NextTimed]_vars
    /\ WF_vars(Pass)
    /\ \A s \in Sessions : WF_vars(TimedTimerTick(s))

----------------------------------------------------------------------------
(* Two clients.  The media source is exhausted after one committed frame  *)
(* and the sampler has stopped; two websocket_endpoint coroutines run on   *)
(* the event loop, each with its own local variables.                      *)

TwoSessions == {"s1", "s2"}

InitPair ==
    /\ \E frame \in {f \in Frames : f.faces} :
          LET disk == CommittedDisk(1, frame)
          IN  /\ record = disk.record
              /\ record_mosaic = disk.record_mosaic
              /\ record_encrypt = disk.record_encrypt
    /\ ev = [op |-> "exhausted", why |-> "eof"]
    /\ sampler = "stopped"
    /\ frame_count = 1
    /\ since = 0
    /\ conn = [s \in TwoSessions |-> "none"]
    /\ streaming = [s \in TwoSessions |-> FALSE]
    /\ use_decryption = [s \in TwoSessions |-> FALSE]
    /\ decryption_key = [s \in TwoSessions |-> None]
    /\ elapsed = [s \in TwoSessions |-> 0]

NextPair ==
    \/ \E s \in DOMAIN conn : Connect(s) /\ UNCHANGED elapsed
    \/ \E s \in DOMAIN conn : Disconnect(s) /\ UNCHANGED elapsed
    \/ \E s \in DOMAIN conn : TimerTick(s, {}) /\ UNCHANGED elapsed
    \/ \E s \in DOMAIN conn : Receive(s, ClientMsgs) /\ UNCHANGED elapsed

SpecPair == InitPair /\ [][NextPair]_vars

----------------------------------------------------------------------------
(* Properties *)

\* ev describes a loop iteration of a session; the acting session's local
\* variables before it are ev.pre, after it Local(ev.who)
SessionStep == ev.op \in {"timer", "recv"}

\* ev describes a session's handling of the message type t
Handled(t) == ev.op = "recv" /\ ev.msg.type = t

\* the stream_frame messages of the last iteration
SentFrames ==
    {ev.out[i] : i \in {j \in DOMAIN ev.out : ev.out[j].type = "stream_frame"}}

Sent(t) == \E i \in DOMAIN ev.out : ev.out[i].type = t

OperatorKey == generate_key(ENCRYPTION_KEY)

\* the largest number of S within lo..hi, by bisection (S has one there and
\* none above hi)
RECURSIVE MaxIn(_, _, _)
MaxIn(S, lo, hi) ==
    IF lo = hi THEN lo
    ELSE LET mid == (lo + hi) \div 2
         IN  IF \E n \in S : n > mid THEN MaxIn(S, mid + 1, hi)
             ELSE MaxIn(S, lo, mid)

\* the largest number in S (S is not empty)
MaxOf(S) == MaxIn(S, 0, UpperBound(S, 0))

\* C1: a stream_frame with decrypted = true is sent only by a push that
\* found the session in DECRYPTING mode (use_decryption true and a key
\* stored), on a timer tick as on a stream_request; a push in REDACTED mode
\* sends at most the latest mosaic file, marked decrypted = false.
C1_DecryptedOnlyWhenDecrypting ==
    SessionStep =>
        /\ \A m \in SentFrames :
              m.decrypted =>
                  ev.pre.use_decryption /\ Truthy(ev.pre.decryption_key)
        /\ ~ev.pre.use_decryption =>
              \A m \in SentFrames :
                  /\ ~m.decrypted
                  /\ Has(record_mosaic, m.filename)
                  /\ m.data = ImEncodeB64(ImRead(FileAt(record_mosaic, m.filename)))

\* C1, reached: a timer tick has pushed a decrypted frame
C1_Witness ==
    /\ ev.op = "timer"
    /\ \E m \in SentFrames : m.decrypted

\* C2: after a set_decryption_key whose probe failed (the handler answered
\* decryption_key_invalid) the session is in REDACTED mode and stores no
\* key, whatever its state was before.
C2_FailedProbeResets ==
    (Handled("set_decryption_key") /\ Sent("decryption_key_invalid")) =>
        /\ ~use_decryption[ev.who]
        /\ decryption_key[ev.who] = None

\* C3: every set_decryption_key with a non-empty passphrase is answered by
\* exactly one message, decryption_key_valid or decryption_key_invalid, in
\* every state of the catalog, and by decryption_key_invalid when the
\* passphrase is not the operator's.
C3_ProbeAlwaysAnswered ==
    (Handled("set_decryption_key") /\ ev.msg.key # "") =>
        /\ Len(ev.out) = 1
        /\ ev.out[1].type \in {"decryption_key_valid", "decryption_key_invalid"}
        /\ ev.msg.key # ENCRYPTION_KEY =>
              ev.out[1].type = "decryption_key_invalid"

\* C4: when an encrypted file exists and the file operations of decrypt_file
\* succeed, set_decryption_key with the operator passphrase is answered
\* decryption_key_valid and leaves the session in DECRYPTING mode with the
\* derived key stored; a stream_request of a session in that mode pushes
\* the encrypted file of the highest frame number, decrypted, as one
\* stream_frame with decrypted = true.
C4_OperatorKeyDecrypts ==
    /\ (Handled("set_decryption_key") /\ ev.msg.key = ENCRYPTION_KEY
            /\ ~IsEmpty(record_encrypt) /\ ev.io # "fail") =>
          /\ ev.out = <<Reply("decryption_key_valid")>>
          /\ use_decryption[ev.who]
          /\ decryption_key[ev.who] = OperatorKey
    /\ (Handled("stream_request") /\ ev.pre.use_decryption
            /\ ev.pre.decryption_key = OperatorKey
            /\ ~IsEmpty(record_encrypt) /\ ev.io # "fail") =>
          LET n == MaxOf(Names(record_encrypt))
          IN  /\ ev.out = <<StreamFrame(
                               ImRead(FernetDecrypt(OperatorKey,
                                                    FileAt(record_encrypt, n))),
                               n, TRUE)>>
              /\ ev.out[1].data.img.scene \in {f.scene : f \in Frames}
              /\ ~ev.out[1].data.img.blurred

\* C4, reached: a stream_request was answered with the decrypted second
\* frame, the first one being in the catalog as well
C4_Witness ==
    /\ Handled("stream_request")
    /\ ev.pre.decryption_key = OperatorKey
    /\ \E m \in SentFrames : m.decrypted /\ m.filename = 1
    /\ Has(record_encrypt, 0)

\* C5: whenever the sampler has yielded control, every file of
\* ./record_mosaic has a file of the same frame number in ./record_encrypt.
C5_RedactedHasEncrypted ==
    sampler \in {"yield", "stopped"} =>
        Names(record_mosaic) \subseteq Names(record_encrypt)

\* C6: after a sampler tick that removed the raw file, the raw file is
\* absent and the mosaic file and the encrypted file of that frame number
\* exist; after a tick that found the raw file staged and left a derived
\* file missing, the raw file is still there.
C6_RawDeletedOnlyWhenBothExist ==
    ev.op = "tick" =>
        /\ ev.deleted =>
              /\ ~Has(record, ev.n)
              /\ Has(record_mosaic, ev.n)
              /\ Has(record_encrypt, ev.n)
        /\ (ev.staged /\ ~(Has(record_mosaic, ev.n)
                            /\ Has(record_encrypt, ev.n))) =>
              /\ ~ev.deleted
              /\ Has(record, ev.n)

\* C6, reached: a tick has removed the raw file of its frame
C6_Witness == ev.op = "tick" /\ ev.deleted

\* C6, reached: a tick without an exception kept its raw file because the
\* mosaic file is missing
C6_WitnessKept ==
    /\ ev.op = "tick" /\ ev.ok /\ ~ev.deleted
    /\ Has(record, ev.n) /\ ~Has(record_mosaic, ev.n)

\* C7: the raw file of a frame whose redaction or encryption failed is kept
\* as it is by every later step: it is neither removed nor overwritten.
C7_FailedRawRetained ==
    [][(ev.op = "tick" /\ ~ev.ok /\ Has(record, ev.n)) =>
          (Has(record', ev.n) /\ FileAt(record', ev.n) = FileAt(record, ev.n))]_vars

\* C8: when startup has completed, every raw file that was on disk and
\* lacked a derived file has its mosaic file and its encrypted file and is
\* itself removed, and the derived files of an already processed frame are
\* as they were.
C8_StartupProcessesExisting ==
    ev.op = "startup" =>
        \A n \in Names(ev.before.record) :
            IF Has(ev.before.record_mosaic, n)
                   /\ Has(ev.before.record_encrypt, n)
            THEN /\ Has(record_mosaic, n)
                 /\ FileAt(record_mosaic, n) = FileAt(ev.before.record_mosaic, n)
                 /\ Has(record_encrypt, n)
                 /\ FileAt(record_encrypt, n) = FileAt(ev.before.record_encrypt, n)
            ELSE /\ Has(record_mosaic, n)
                 /\ Has(record_encrypt, n)
                 /\ ~Has(record, n)

\* C9: the file a push takes as the latest of its directory is the file of
\* the highest frame number, for every number of committed frames.
C9_LatestIsNewest ==
    SessionStep =>
        \A m \in SentFrames :
            m.filename = MaxOf(Names(IF m.decrypted THEN record_encrypt
                                                    ELSE record_mosaic))

\* C10: stop_stream is answered stream_complete and leaves the session
\* IDLE; an IDLE session has no timer tick, sends a stream_frame only in
\* answer to a stream_request and stays IDLE on every other message.
C10_StopStreamStops ==
    /\ Handled("stop_stream") =>
          /\ ev.out = <<Reply("stream_complete")>>
          /\ ~streaming[ev.who]
    /\ (SessionStep /\ ~ev.pre.streaming) =>
          /\ ev.op = "recv"
          /\ ev.msg.type # "stream_request" =>
                /\ SentFrames = {}
                /\ ~streaming[ev.who]

\* C10, reached: a streaming session has handled stop_stream
C10_Witness == Handled("stop_stream") /\ ev.pre.streaming

\* ev describes a push of the latest frame: a timer tick or a stream_request
Pushed == ev.op = "timer" \/ Handled("stream_request")

\* C11: a push whose decryption failed sends decryption_error and nothing
\* else (no stream_frame), leaves the session connected with use_decryption
\* false and the streaming flag on, and nothing else sends decryption_error;
\* the next timer tick of that session sends no decrypted frame, and sends
\* the latest mosaic frame when there is one.
C11_DecryptFailureFallsBack ==
    /\ [](/\ (Pushed /\ ev.io = "fail") => Sent("decryption_error")
          /\ (SessionStep /\ Sent("decryption_error")) =>
                /\ Pushed /\ ev.io = "fail"
                /\ ev.pre.use_decryption
                /\ ev.out = <<Reply("decryption_error")>>
                /\ conn[ev.who] = "open"
                /\ ~use_decryption[ev.who]
                /\ streaming[ev.who])
    /\ [][(SessionStep /\ Sent("decryption_error")
              /\ ev' # ev /\ ev'.op = "timer" /\ ev'.who = ev.who) =>
            /\ \A i \in DOMAIN ev'.out :
                  /\ ev'.out[i].type = "stream_frame"
                  /\ ~ev'.out[i].decrypted
            /\ ~IsEmpty(record_mosaic) => Len(ev'.out) = 1
            /\ streaming'[ev.who]]_vars

\* C11, reached: a timer tick of a session that fell back (it is in the
\* redacted mode with its key still stored) has pushed a mosaic frame
C11_Witness ==
    /\ ev.op = "timer"
    /\ ~ev.pre.use_decryption /\ Truthy(ev.pre.decryption_key)
    /\ \E m \in SentFrames : ~m.decrypted

\* C12: set_decryption_key with an empty or absent key is answered
\* decryption_disabled alone and leaves use_decryption false and no key
\* stored, whatever they were, and the streaming flag as it was.
C12_EmptyKeyDisables ==
    (Handled("set_decryption_key") /\ ev.msg.key = "") =>
        /\ ev.out = <<Reply("decryption_disabled")>>
        /\ ~use_decryption[ev.who]
        /\ decryption_key[ev.who] = None
        /\ streaming[ev.who] = ev.pre.streaming
        /\ conn[ev.who] = "open"

\* C12, reached: a streaming session in the decrypting mode has handled an
\* empty key
C12_Witness ==
    /\ Handled("set_decryption_key") /\ ev.msg.key = ""
    /\ ev.pre.use_decryption /\ ev.pre.streaming

\* C13: a loop iteration acts on the timer or on the message and the other
\* is without effect: an iteration that handles the timer tick has taken no
\* message from the channel, also when both tasks had completed.
C13_NoMessageDropped ==
    ev.op = "timer" => ev.lost = NoMsg

\* C14: a session that is streaming gets a timer tick handled, or leaves
\* the streaming state, however often its client sends messages within the
\* interval; and a tick is handled only for a timer_task that has completed
\* and that the iteration then replaces, so once per expiry.
C14_TicksNotStarved ==
    /\ \A s \in Sessions :
          (conn[s] = "open" /\ streaming[s]) ~>
              \/ ev.op = "timer" /\ ev.who = s
              \/ ~(conn[s] = "open" /\ streaming[s])
    /\ [][\A s \in Sessions :
            (ev' # ev /\ ev'.op = "timer" /\ ev'.who = s) =>
                TimerExpired(s) /\ elapsed'[s] = 0]_vars

\* C15: while the sampler waits for the media source, a connected session
\* can handle a message, and its timer tick when it is streaming; and
\* whatever the sessions wait for, the sampler that slept can go on to its
\* next read.
C15_NeverBlockEachOther ==
    /\ \A s \in Sessions :
          (sampler = "reading" /\ conn[s] = "open") =>
              /\ ENABLED Receive(s, ClientMsgs)
              /\ streaming[s] => ENABLED TimerTick(s, RacingMsgs)
    /\ sampler = "yield" => ENABLED SamplerWake

\* C16: the frame a tick has sampled has an identifier below the one the
\* next sampled frame will get, whether its processing succeeded or failed,
\* so no later frame of the run is written under its file names.
C16_IdentifiersIncrease ==
    ev.op = "tick" => frame_count > ev.n

\* the frames that are finalized: mosaic and encrypted present, raw absent
Finalized ==
    {n \in Names(record_mosaic) \cap Names(record_encrypt) : ~Has(record, n)}

\* C17: in a run whose ticks all succeed, once the sampler runs the catalog
\* holds the finalized frames 0 .. frame_count - 1 and nothing else; a frame
\* read before the interval has passed leaves the directories and the
\* counter as they are, and a frame read after it adds exactly the next
\* identifier and restarts the interval.
C17_OneFramePerInterval ==
    /\ [](sampler # "boot" =>
            /\ IsEmpty(record)
            /\ Names(record_mosaic) = 0..(frame_count - 1)
            /\ Names(record_encrypt) = 0..(frame_count - 1)
            /\ Finalized = 0..(frame_count - 1))
    /\ [][(sampler = "reading" /\ sampler' = "yield") =>
            IF ev'.op = "discard"
            THEN /\ UNCHANGED <<record, record_mosaic, record_encrypt,
                                frame_count>>
                 /\ since' < FrameInterval
            ELSE /\ ev'.op = "tick" /\ ev'.n = frame_count
                 /\ frame_count' = frame_count + 1
                 /\ since' = 0]_vars

\* C17, reached: a frame was dropped after the last tick the model allows,
\* the frames sampled before being all in the catalog
C17_Witness ==
    /\ ev.op = "discard"
    /\ frame_count = MaxFrames
    /\ Finalized = 0..(MaxFrames - 1)

\* C18: a tick leaves the sampler in its loop whether the staging of the
\* raw file, the redaction, the encryption or the writing of a derived file
\* failed or not; the loop ends only out of a read, on end of stream or a
\* short read, and its ending leaves every session connected and as it is;
\* once it has ended the directories and the counter stay as they are.
C18_BadFrameNeverStopsSampler ==
    /\ [](ev.op \in {"tick", "discard"} => sampler \in {"yield", "reading"})
    /\ [][/\ (sampler' = "stopped" /\ sampler # "stopped") =>
                /\ sampler = "reading" /\ ev'.op = "exhausted"
                /\ UNCHANGED <<conn, streaming, use_decryption,
                               decryption_key>>
          /\ sampler = "stopped" =>
                /\ sampler' = "stopped"
                /\ UNCHANGED <<record, record_mosaic, record_encrypt,
                               frame_count>>]_vars

\* C18, reached: the sampler is in its next read after a tick that could
\* not stage the raw file and failed
C18_Witness ==
    /\ ev.op = "tick" /\ ~ev.ok /\ ~ev.staged
    /\ sampler = "reading"

\* C18, reached: a session was served a frame after the sampler had stopped
C18_WitnessServing ==
    /\ sampler = "stopped"
    /\ SessionStep /\ SentFrames # {}

\* C19: a session whose use_decryption is false stores no key.
C19_KeyOnlyWhileDecrypting ==
    \A s \in DOMAIN conn : ~use_decryption[s] => decryption_key[s] = None

\* the step is the handling by the session s of a set_decryption_key that
\* was answered decryption_key_valid
ProbePassed(s) ==
    /\ ev' # ev
    /\ ev'.op = "recv" /\ ev'.who = s
    /\ ev'.msg.type = "set_decryption_key"
    /\ ev'.out = <<Reply("decryption_key_valid")>>

\* C20: a session with use_decryption true is connected and stores a key
\* that opens the encrypted files; use_decryption becomes true, and the
\* stored key of a decrypting session changes, only in that session's own
\* handling of a set_decryption_key whose derived key opened an encrypted
\* file, and that key is the one stored; a decryption_disabled or
\* decryption_error leaves the session with use_decryption false; a
\* decrypted frame is pushed only by a session that was decrypting; and a
\* step of one session leaves the variables of every other session as they
\* are.
C20_DecryptingOnlyByOwnProbe ==
    /\ [](\A s \in DOMAIN conn :
            use_decryption[s] =>
                /\ conn[s] = "open"
                /\ Truthy(decryption_key[s])
                /\ \E n \in Names(record_encrypt) :
                      FernetOpens(decryption_key[s], FileAt(record_encrypt, n)))
    /\ [](SessionStep =>
            /\ (Sent("decryption_disabled") \/ Sent("decryption_error")) =>
                  ~use_decryption[ev.who]
            /\ (\E m \in SentFrames : m.decrypted) => ev.pre.use_decryption)
    /\ [][\A s \in DOMAIN conn :
            /\ (use_decryption'[s] /\
                   (~use_decryption[s]
                      \/ decryption_key'[s] # decryption_key[s])) =>
                  /\ ProbePassed(s)
                  /\ decryption_key'[s] = generate_key(ev'.msg.key)
                  /\ ev'.io = "ok"
            /\ (ev' # ev /\ ev'.op \in {"timer", "recv", "connect",
                                          "disconnect"}
                   /\ ev'.who # s) =>
                  /\ use_decryption'[s] = use_decryption[s]
                  /\ decryption_key'[s] = decryption_key[s]
                  /\ streaming'[s] = streaming[s]
                  /\ conn'[s] = conn[s]]_vars

\* C20, reached: while s1 is decrypting, s2, which stores no key, was
\* pushed a frame
C20_Witness ==
    /\ use_decryption["s1"] /\ decryption_key["s1"] = OperatorKey
    /\ SessionStep /\ ev.who = "s2"
    /\ decryption_key["s2"] = None
    /\ SentFrames # {}

====
